---- MODULE Spec2Model ----
(***************************************************************************)
(* Model of app/dynamic_etl/etl/extract/extractor.py: the two tree         *)
(* flatteners (deep_flatten_row, flatten_json), the JSON shape resolver    *)
(* (extract_json_safely), the list-column rectangularizer                  *)
(* (normalize_list_columns) and the pipeline driver (extract_data).        *)
(*                                                                         *)
(* Encoding.  A Python str is a sequence of one-character strings, so that *)
(* str.strip and f-string composition are computed and not assumed.  A     *)
(* JSON-like value is a record [t, v, c]: t is "dict", "list" or "scalar", *)
(* v the token of a scalar ("None" is Python None, "NaN" is float nan, ""  *)
(* is the empty str), c the children in iteration order, each a record     *)
(* [k, n] (key, node); k is unused in a list.  A Python dict is the        *)
(* insertion-ordered sequence of its [k, n] items, keys unique.  A pandas  *)
(* DataFrame is [columns, rows], every row a dict over all the columns.    *)
(***************************************************************************)
EXTENDS Integers, Sequences, FiniteSets, TLC

VARIABLES pc, file, raw, df, ret, failure, call

vars == <<pc, file, raw, df, ret, failure, call>>

(***************************************************************************)
(* Bounds of the checked instances.                                        *)
(***************************************************************************)
MaxNodes == 3
MaxListLen == 2
MaxCells == 4

(***************************************************************************)
(* Python str and the keys of a dict.                                      *)
(***************************************************************************)
NoneKey == <<"<None>">>

Underscore == <<"_">>

Unknown == <<"u", "n", "k", "n", "o", "w", "n">>

Whitespace == {" "}

Digits == <<"0", "1", "2", "3", "4", "5", "6", "7", "8", "9">>

str(key) == IF key = NoneKey THEN <<"N", "o", "n", "e">> ELSE key

str_index(i) == <<Digits[i + 1]>>

RECURSIVE lstrip(_, _)
lstrip(s, chars) ==
    IF s # <<>> /\ Head(s) \in chars THEN lstrip(Tail(s), chars) ELSE s

RECURSIVE rstrip(_, _)
rstrip(s, chars) ==
    IF s # <<>> /\ s[Len(s)] \in chars
    THEN rstrip(SubSeq(s, 1, Len(s) - 1), chars)
    ELSE s

strip(s, chars) == rstrip(lstrip(s, chars), chars)

(***************************************************************************)
(* Values and dicts.                                                       *)
(***************************************************************************)
Scalar(v) == [t |-> "scalar", v |-> v, c |-> <<>>]

List(items) ==
    [t |-> "list", v |-> "",
     c |-> [i \in 1..Len(items) |-> [k |-> <<>>, n |-> items[i]]]]

Dict(items) == [t |-> "dict", v |-> "", c |-> items]

Item(key, node) == [k |-> key, n |-> node]

None == Scalar("None")

NaN == Scalar("NaN")

dict_has(d, key) == \E i \in 1..Len(d) : d[i].k = key

dict_get(d, key) == d[CHOOSE i \in 1..Len(d) : d[i].k = key].n

dict_set(d, key, node) ==
    IF dict_has(d, key)
    THEN [i \in 1..Len(d) |-> IF d[i].k = key THEN Item(key, node) ELSE d[i]]
    ELSE Append(d, Item(key, node))

dict_keys(d) == {d[i].k : i \in 1..Len(d)}

(***************************************************************************)
(* deep_flatten_value / deep_flatten_row (lines 11-35).                    *)
(***************************************************************************)
\* variant of stored_value that keeps None as it is
stored_unchanged(value) == value

stored_value(value) == IF value = None THEN Scalar("") ELSE value

row_key(prefix, segment) ==
    strip(prefix \o Underscore \o segment, {"_"})

\* variant of is_skipped_prefix that strips the separators before the test
skips_separator_prefix(prefix) ==
    prefix = NoneKey \/ strip(prefix, {"_"}) = <<>>

is_skipped_prefix(prefix) == prefix \in {<<>>, NoneKey}

RECURSIVE deep_flatten_value(_, _, _)
RECURSIVE deep_flatten_items(_, _, _, _)
deep_flatten_value(prefix, value, out) ==
    IF is_skipped_prefix(prefix) THEN out
    ELSE IF value.t \in {"dict", "list"}
         THEN deep_flatten_items(prefix, value, 1, out)
         ELSE dict_set(out, prefix, stored_value(value))

deep_flatten_items(prefix, value, i, out) ==
    IF i > Len(value.c) THEN out
    ELSE LET segment == IF value.t = "dict"
                        THEN str(value.c[i].k)
                        ELSE str_index(i - 1)
             key == row_key(prefix, segment)
         IN  deep_flatten_items(prefix, value, i + 1,
                                deep_flatten_value(key, value.c[i].n, out))

RECURSIVE deep_flatten_from(_, _, _)
deep_flatten_from(row, i, flat) ==
    IF i > Len(row) THEN flat
    ELSE deep_flatten_from(row, i + 1,
                           deep_flatten_value(row[i].k, row[i].n, flat))

deep_flatten_row(row) == deep_flatten_from(row, 1, <<>>)

(***************************************************************************)
(* flatten_json (lines 41-70).                                             *)
(***************************************************************************)
is_blank(s) == strip(s, Whitespace) = <<>>

normalize_key(key) ==
    IF key = NoneKey \/ is_blank(str(key)) THEN Unknown ELSE str(key)

json_key(key_prefix, segment) == key_prefix \o Underscore \o segment

RECURSIVE recurse(_, _, _)
RECURSIVE recurse_items(_, _, _, _)
recurse(value, prefix, out) ==
    LET key_prefix == normalize_key(prefix)
    IN  IF value.t \in {"dict", "list"}
        THEN recurse_items(value, key_prefix, 1, out)
        ELSE dict_set(out, normalize_key(key_prefix), stored_value(value))

recurse_items(value, key_prefix, i, out) ==
    IF i > Len(value.c) THEN out
    ELSE LET segment == IF value.t = "dict"
                        THEN normalize_key(value.c[i].k)
                        ELSE str_index(i - 1)
         IN  recurse_items(value, key_prefix, i + 1,
                           recurse(value.c[i].n,
                                   json_key(key_prefix, segment), out))

flatten_json(data, prefix) == recurse(data, prefix, <<>>)

(***************************************************************************)
(* pandas.DataFrame(records) and DataFrame.to_dict(orient="records"):      *)
(* the columns are the keys of the records in first-seen order, and a      *)
(* record that lacks a column gets NaN there.  pd.DataFrame() and          *)
(* pd.DataFrame([]) are the frame with no columns and no rows.  Scalars    *)
(* are tokens compared as Python compares them (1 == 1.0), so the dtype a  *)
(* column takes is not part of the model.                                  *)
(***************************************************************************)
RECURSIVE add_keys(_, _, _)
add_keys(columns, record, j) ==
    IF j > Len(record) THEN columns
    ELSE add_keys(IF \E c \in 1..Len(columns) : columns[c] = record[j].k
                  THEN columns
                  ELSE Append(columns, record[j].k),
                  record, j + 1)

RECURSIVE frame_columns(_, _, _)
frame_columns(records, i, columns) ==
    IF i > Len(records) THEN columns
    ELSE frame_columns(records, i + 1, add_keys(columns, records[i], 1))

DataFrame(records) ==
    LET columns == frame_columns(records, 1, <<>>)
    IN  [columns |-> columns,
         rows |-> [i \in 1..Len(records) |->
                     [j \in 1..Len(columns) |->
                        Item(columns[j],
                             IF dict_has(records[i], columns[j])
                             THEN dict_get(records[i], columns[j])
                             ELSE NaN)]]]

to_dict_records(frame) == frame.rows

(***************************************************************************)
(* extract_json_safely (lines 73-106), from the parsed document on.        *)
(***************************************************************************)
list_candidates(data) == SelectSeq(data.c, LAMBDA e : e.n.t = "list")

\* variant of largest_list that keeps the last of the longest candidates
last_largest_list(candidates) ==
    candidates[CHOOSE i \in 1..Len(candidates) :
                 /\ \A j \in 1..Len(candidates) :
                       Len(candidates[j].n.c) <= Len(candidates[i].n.c)
                 /\ \A j \in (i + 1)..Len(candidates) :
                       Len(candidates[j].n.c) < Len(candidates[i].n.c)]

largest_list(candidates) ==
    candidates[CHOOSE i \in 1..Len(candidates) :
                 /\ \A j \in 1..Len(candidates) :
                       Len(candidates[j].n.c) <= Len(candidates[i].n.c)
                 /\ \A j \in 1..(i - 1) :
                       Len(candidates[j].n.c) < Len(candidates[i].n.c)]

RECURSIVE add_non_list_fields(_, _, _)
add_non_list_fields(flat, data, i) ==
    IF i > Len(data.c) THEN flat
    ELSE add_non_list_fields(IF data.c[i].n.t # "list"
                             THEN dict_set(flat, data.c[i].k, data.c[i].n)
                             ELSE flat,
                             data, i + 1)

resolve_rows(data) ==
    LET largest == largest_list(list_candidates(data)).n
    IN  [i \in 1..Len(largest.c) |->
           add_non_list_fields(flatten_json(largest.c[i].n, <<>>), data, 1)]

extract_json_safely(data) ==
    IF data.t = "list"
    THEN DataFrame([i \in 1..Len(data.c) |-> flatten_json(data.c[i].n, <<>>)])
    ELSE IF data.t = "dict"
         THEN IF list_candidates(data) # <<>>
              THEN DataFrame(resolve_rows(data))
              ELSE DataFrame(<<flatten_json(data, <<>>)>>)
         ELSE DataFrame(<< <<Item(<<"v", "a", "l", "u", "e">>, data)>> >>)

(***************************************************************************)
(* normalize_list_columns (lines 112-125).                                 *)
(***************************************************************************)
series(frame, j) == [i \in 1..Len(frame.rows) |-> frame.rows[i][j].n]

has_list(cells) == \E i \in 1..Len(cells) : cells[i].t = "list"

cell_len(x) == IF x.t = "list" THEN Len(x.c) ELSE 1

max_len(cells) ==
    CHOOSE m \in {cell_len(cells[i]) : i \in 1..Len(cells)} :
        \A i \in 1..Len(cells) : cell_len(cells[i]) <= m

list_items(x) == [i \in 1..Len(x.c) |-> x.c[i].n]

nones(n) == [i \in 1..n |-> None]

\* variant of pad_cell that wraps a non-list cell without padding it
pad_cell_lists_only(x, m) ==
    IF x.t = "list"
    THEN List(list_items(x) \o nones(m - Len(x.c)))
    ELSE List(<<x>>)

pad_cell(x, m) ==
    IF x.t = "list"
    THEN List(list_items(x) \o nones(m - Len(x.c)))
    ELSE List(<<x>> \o nones(m - 1))

normalize_column(cells) ==
    IF has_list(cells)
    THEN [i \in 1..Len(cells) |-> pad_cell(cells[i], max_len(cells))]
    ELSE cells

normalize_list_columns(frame) ==
    [columns |-> frame.columns,
     rows |-> [i \in 1..Len(frame.rows) |->
                 [j \in 1..Len(frame.columns) |->
                    Item(frame.columns[j],
                         normalize_column(series(frame, j))[i])]]]

(***************************************************************************)
(* The inputs of the checked instances.                                    *)
(***************************************************************************)
ScalarValues == {None, Scalar("1")}

DirectKeys == {<<>>, NoneKey, <<"_">>, <<"a">>}

JsonKeys == {<<>>, <<"_">>, <<"a">>}

KeySeqs(keys, n) ==
    {s \in [1..n -> keys] : \A i, j \in 1..n : s[i] = s[j] => i = j}

Items(ks, nodes) == [i \in 1..Len(nodes) |-> Item(ks[i], nodes[i])]

\* every value of exactly n nodes, and every sequence of values of n nodes
\* in all, with dict keys from keys
RECURSIVE NodesOfSize(_, _)
RECURSIVE Forests(_, _)
NodesOfSize(keys, n) ==
    IF n = 1
    THEN ScalarValues \cup {List(<<>>), Dict(<<>>)}
    ELSE {List(f) : f \in Forests(keys, n - 1)}
         \cup UNION {{Dict(Items(ks, f)) : ks \in KeySeqs(keys, Len(f))} :
                       f \in Forests(keys, n - 1)}

Forests(keys, m) ==
    IF m = 0
    THEN {<<>>}
    ELSE UNION {{<<node>> \o f : node \in NodesOfSize(keys, s),
                                 f \in Forests(keys, m - s)} :
                  s \in 1..m}

Nodes(keys) == UNION {NodesOfSize(keys, n) : n \in 1..MaxNodes}

\* the rows given to deep_flatten_row: the small dicts, and one key over
\* any small value
CellKeys == {<<"_">>, <<"a">>}

Rows ==
    {node.c : node \in {d \in Nodes(DirectKeys) : d.t = "dict"}}
    \cup {<<Item(key, node)>> : key \in CellKeys, node \in Nodes(DirectKeys)}

\* documents for the shape resolver: up to three top-level fields, each a
\* list of 0..MaxListLen elements or a non-list value
IndexList(n) == List([i \in 1..n |-> Scalar(Digits[i])])

RecordList(n) == List([i \in 1..n |-> Dict(<<Item(<<"s">>, Scalar("x"))>>)])

ShapeValues ==
    {IndexList(n) : n \in 0..MaxListLen}
    \cup {RecordList(n) : n \in 1..MaxListLen}
    \cup {Scalar("7"), Dict(<<Item(<<"c">>, None)>>)}

ShapeKeys == {<<"p">>, <<"q">>, <<"s">>}

ShapeDocs ==
    UNION {{Dict(Items(ks, vs)) : ks \in KeySeqs(ShapeKeys, n),
                                  vs \in [1..n -> ShapeValues]} :
             n \in 1..3}

\* {"a": [0, 1, 2], "id": 7, "b": [0, 1, 2, 3, 4]}
LengthsDoc ==
    Dict(<<Item(<<"a">>, IndexList(3)),
           Item(<<"i", "d">>, Scalar("7")),
           Item(<<"b">>, IndexList(5))>>)

\* {"id": 1, "items": [{"sku": "A", "tags": ["x", "y"]},
\*                     {"sku": "B", "tags": ["z"]}]}
K_id == <<"i", "d">>

K_items == <<"i", "t", "e", "m", "s">>

K_sku == <<"s", "k", "u">>

K_tags == <<"t", "a", "g", "s">>

ExampleDoc ==
    Dict(<<Item(K_id, Scalar("1")),
           Item(K_items,
                List(<<Dict(<<Item(K_sku, Scalar("A")),
                              Item(K_tags, List(<<Scalar("x"), Scalar("y")>>))>>),
                       Dict(<<Item(K_sku, Scalar("B")),
                              Item(K_tags, List(<<Scalar("z")>>))>>)>>))>>)

JsonDocs == Nodes(JsonKeys) \cup ShapeDocs \cup {LengthsDoc, ExampleDoc}

\* tables a format reader hands over: one or two columns, MaxCells cells at
\* most, composite cells included
TableCells ==
    {Scalar("1"), List(<<>>), List(<<Scalar("x")>>),
     List(<<Dict(<<Item(<<"k">>, None)>>), Scalar("y")>>),
     Dict(<<Item(<<"k">>, List(<<Scalar("z")>>))>>)}

TableColumns == {<< <<"a">> >>, << <<"a">>, <<"b">> >>}

Tables ==
    UNION {UNION {{[columns |-> cols,
                    rows |-> [i \in 1..n |->
                                [j \in 1..Len(cols) |->
                                   Item(cols[j], cells[i][j])]]] :
                     cells \in [1..n -> [1..Len(cols) -> TableCells]]} :
                    n \in {m \in 0..MaxCells : m * Len(cols) <= MaxCells}} :
             cols \in TableColumns}

(***************************************************************************)
(* extract_data (lines 135-173).  file is what the path leads to: whether  *)
(* it exists, its extension, whether json.load / the reader succeeds on    *)
(* it, and the document or table it then yields.  Python may raise in any  *)
(* stage (MemoryError, RecursionError, a fault of the reader's frame).     *)
(***************************************************************************)
READERS == {"csv"}

Pending == [columns |-> << <<"<pending>">> >>, rows |-> <<>>]

NoCall == [op |-> "none", st |-> "none", arg |-> <<>>, res |-> <<>>]

Files ==
    {[exists |-> FALSE, type |-> t, ok |-> FALSE, content |-> <<>>] :
       t \in {"json", "csv", "xyz"}}
    \cup {[exists |-> TRUE, type |-> "xyz", ok |-> FALSE, content |-> <<>>]}
    \cup {[exists |-> TRUE, type |-> t, ok |-> FALSE, content |-> <<>>] :
            t \in {"json", "csv"}}
    \cup {[exists |-> TRUE, type |-> "json", ok |-> TRUE, content |-> d] :
            d \in JsonDocs}
    \cup {[exists |-> TRUE, type |-> "csv", ok |-> TRUE, content |-> t] :
            t \in Tables}

Init ==
    /\ pc = "start"
    /\ file \in Files
    /\ raw = Pending
    /\ df = Pending
    /\ ret = Pending
    /\ failure = "none"
    /\ call = NoCall

is_exception(kind) ==
    kind \in {"FileNotFoundError", "JSONDecodeError", "ReaderError", "Unexpected"}

\* variant of except_result that hands back the frame built so far
except_partial(frame) == IF frame = Pending THEN DataFrame(<<>>) ELSE frame

except_result(frame) == DataFrame(<<>>)

unsupported_result(frame) == DataFrame(<<>>)

\* variant of reflatten that leaves the rows as they are
reflatten_skipped(frame) == frame

reflatten(frame) ==
    DataFrame([i \in 1..Len(to_dict_records(frame)) |->
                 deep_flatten_row(to_dict_records(frame)[i])])

Raise(kind) ==
    /\ failure' = kind
    /\ pc' = "except"
    /\ UNCHANGED <<file, raw, df, ret, call>>

\* lines 138-139
CheckPath ==
    /\ pc = "start"
    /\ IF ~file.exists
       THEN Raise("FileNotFoundError")
       ELSE /\ pc' = "read"
            /\ UNCHANGED <<file, raw, df, ret, failure, call>>

\* lines 147-148
ReadJson ==
    /\ pc = "read"
    /\ file.type = "json"
    /\ IF ~file.ok
       THEN Raise("JSONDecodeError")
       ELSE /\ df' = extract_json_safely(file.content)
            /\ raw' = df'
            /\ pc' = "normalize"
            /\ UNCHANGED <<file, ret, failure, call>>

\* lines 149-154
ReadOther ==
    /\ pc = "read"
    /\ file.type # "json"
    /\ IF file.type \notin READERS
       THEN /\ ret' = unsupported_result(df)
            /\ failure' = "UnsupportedFormat"
            /\ pc' = "done"
            /\ UNCHANGED <<file, raw, df, call>>
       ELSE IF ~file.ok
            THEN Raise("ReaderError")
            ELSE /\ df' = file.content
                 /\ raw' = df'
                 /\ pc' = "normalize"
                 /\ UNCHANGED <<file, ret, failure, call>>

\* line 157
Normalize ==
    /\ pc = "normalize"
    /\ df' = normalize_list_columns(df)
    /\ pc' = "flatten"
    /\ UNCHANGED <<file, raw, ret, failure, call>>

\* lines 162-164
Reflatten ==
    /\ pc = "flatten"
    /\ df' = reflatten(df)
    /\ pc' = "return"
    /\ UNCHANGED <<file, raw, ret, failure, call>>

\* line 169
Return ==
    /\ pc = "return"
    /\ ret' = df
    /\ pc' = "done"
    /\ UNCHANGED <<file, raw, df, failure, call>>

\* a fault raised inside the try block (lines 141-169)
Fault ==
    /\ pc \in {"read", "normalize", "flatten", "return"}
    /\ Raise("Unexpected")

\* lines 171-173
Except ==
    /\ pc = "except"
    /\ IF is_exception(failure)
       THEN /\ ret' = except_result(df)
            /\ pc' = "done"
       ELSE /\ ret' = ret
            /\ pc' = "escaped"
    /\ UNCHANGED <<file, raw, df, failure, call>>

Next ==
    \/ CheckPath
    \/ ReadJson
    \/ ReadOther
    \/ Normalize
    \/ Reflatten
    \/ Return
    \/ Fault
    \/ Except

Spec == Init /\ [][Next]_vars

(***************************************************************************)
(* The flatteners called directly: flatten_json(data) with the default     *)
(* prefix, and deep_flatten_row(row).                                      *)
(***************************************************************************)
Calls ==
    {[op |-> "flatten_json", st |-> "called", arg |-> d, res |-> <<>>] :
       d \in Nodes(DirectKeys)}
    \cup {[op |-> "deep_flatten_row", st |-> "called", arg |-> r, res |-> <<>>] :
            r \in Rows}

InitFlatten ==
    /\ pc = "idle"
    /\ file = [exists |-> FALSE, type |-> "json", ok |-> FALSE, content |-> <<>>]
    /\ raw = Pending
    /\ df = Pending
    /\ ret = Pending
    /\ failure = "none"
    /\ call \in Calls

FlattenJson ==
    /\ call.op = "flatten_json"
    /\ call.st = "called"
    /\ call' = [call EXCEPT !.st = "returned",
                            !.res = flatten_json(call.arg, <<>>)]
    /\ UNCHANGED <<pc, file, raw, df, ret, failure>>

DeepFlattenRow ==
    /\ call.op = "deep_flatten_row"
    /\ call.st = "called"
    /\ call' = [call EXCEPT !.st = "returned",
                            !.res = deep_flatten_row(call.arg)]
    /\ UNCHANGED <<pc, file, raw, df, ret, failure>>

NextFlatten == FlattenJson \/ DeepFlattenRow

SpecFlatten == InitFlatten /\ [][NextFlatten]_vars

(***************************************************************************)
(* Vocabulary of the properties.                                           *)
(***************************************************************************)
EmptyTable == [columns |-> <<>>, rows |-> <<>>]

Returned(op) == call.op = op /\ call.st = "returned"

IsContainer(node) == node.t \in {"dict", "list"}

NullAsEmpty(node) == IF node.v = "None" THEN Scalar("") ELSE node

Holds(d, key, node) == dict_has(d, key) /\ dict_get(d, key) = node

\* the leaf assignments out[key] = ... of deep_flatten_row(row), in the
\* order the traversal makes them
RECURSIVE RowWrites(_, _)
RECURSIVE RowWritesFrom(_, _, _)
RowWrites(prefix, value) ==
    IF prefix \in {<<>>, NoneKey} THEN <<>>
    ELSE IF IsContainer(value) THEN RowWritesFrom(prefix, value, 1)
    ELSE <<Item(prefix, value)>>

RowWritesFrom(prefix, value, i) ==
    IF i > Len(value.c) THEN <<>>
    ELSE RowWrites(strip(prefix \o <<"_">> \o
                         (IF value.t = "dict" THEN str(value.c[i].k)
                                              ELSE str_index(i - 1)),
                         {"_"}),
                   value.c[i].n)
         \o RowWritesFrom(prefix, value, i + 1)

RECURSIVE RowLeaves(_)
RowLeaves(row) ==
    IF row = <<>> THEN <<>>
    ELSE RowWrites(row[1].k, row[1].n) \o RowLeaves(Tail(row))

\* the same for flatten_json(data)
RECURSIVE JsonWrites(_, _)
RECURSIVE JsonWritesFrom(_, _, _)
JsonWrites(prefix, value) ==
    IF IsContainer(value) THEN JsonWritesFrom(normalize_key(prefix), value, 1)
    ELSE <<Item(normalize_key(prefix), value)>>

JsonWritesFrom(prefix, value, i) ==
    IF i > Len(value.c) THEN <<>>
    ELSE JsonWrites(prefix \o <<"_">> \o
                    (IF value.t = "dict" THEN normalize_key(value.c[i].k)
                                         ELSE str_index(i - 1)),
                    value.c[i].n)
         \o JsonWritesFrom(prefix, value, i + 1)

Leaves ==
    IF call.op = "flatten_json" THEN JsonWrites(<<>>, call.arg)
    ELSE RowLeaves(call.arg)

\* the path keys the design gives the leaves of a document: the '_'-join of
\* the normalized segments from the root, no leading segment added
SegmentOf(node, i) ==
    IF node.t = "list" THEN str_index(i - 1)
    ELSE IF node.c[i].k \in {NoneKey, <<>>} THEN Unknown
    ELSE node.c[i].k

RECURSIVE LeafPaths(_)
LeafPaths(node) ==
    IF ~IsContainer(node) THEN {<<>>}
    ELSE UNION {{<<SegmentOf(node, i)>> \o path : path \in LeafPaths(node.c[i].n)} :
                  i \in 1..Len(node.c)}

RECURSIVE PathKey(_)
PathKey(path) ==
    IF Len(path) = 1 THEN path[1]
    ELSE path[1] \o <<"_">> \o PathKey(Tail(path))

\* the top-level list field the resolver is to choose: of greatest length,
\* and the first such
Chosen(data, i) ==
    /\ data.c[i].n.t = "list"
    /\ \A j \in 1..Len(data.c) :
          data.c[j].n.t = "list" =>
             /\ Len(data.c[j].n.c) <= Len(data.c[i].n.c)
             /\ j < i => Len(data.c[j].n.c) < Len(data.c[i].n.c)

Resolved ==
    /\ pc = "normalize"
    /\ file.type = "json"
    /\ file.content.t = "dict"
    /\ \E i \in 1..Len(file.content.c) : file.content.c[i].n.t = "list"

Normalized == pc = "flatten"

ColumnHasList(frame, j) ==
    \E i \in 1..Len(frame.rows) : frame.rows[i][j].n.t = "list"

OriginalItems(x) == IF x.t = "list" THEN list_items(x) ELSE <<x>>

RightPadded(cell, original) ==
    /\ cell.t = "list"
    /\ Len(cell.c) >= Len(original)
    /\ \A p \in 1..Len(cell.c) :
          cell.c[p].n = IF p <= Len(original) THEN original[p] ELSE None

(***************************************************************************)
(* Properties.                                                             *)
(***************************************************************************)

\* C1: the pipeline on the example document {"id": 1, "items": [{"sku": "A",
\* "tags": ["x", "y"]}, {"sku": "B", "tags": ["z"]}]} returns exactly two
\* rows, in order: id=1, items_sku="A", items_tags_0="x", items_tags_1="y",
\* then id=1, items_sku="B", items_tags_0="z", items_tags_1="".
ExampleRow(sku, tag0, tag1) ==
    <<Item(K_id, Scalar("1")),
      Item(K_items \o <<"_">> \o K_sku, Scalar(sku)),
      Item(K_items \o <<"_">> \o K_tags \o <<"_", "0">>, Scalar(tag0)),
      Item(K_items \o <<"_">> \o K_tags \o <<"_", "1">>, Scalar(tag1))>>

SameRow(row, expected) ==
    /\ dict_keys(row) = dict_keys(expected)
    /\ \A i \in 1..Len(expected) : Holds(row, expected[i].k, expected[i].n)

C1_EndToEndExample ==
    (pc = "done" /\ file.exists /\ file.type = "json" /\ file.ok
       /\ file.content = ExampleDoc)
    => /\ Len(ret.rows) = 2
       /\ SameRow(ret.rows[1], ExampleRow("A", "x", "y"))
       /\ SameRow(ret.rows[2], ExampleRow("B", "z", ""))

\* C2: every failure of extract_data, in whichever stage, ends the call with
\* the empty table (no rows, no columns) returned; no exception escapes and
\* no rows computed before the failure are returned.
C2_FailureYieldsEmptyTable ==
    /\ pc # "escaped"
    /\ (pc = "done" /\ failure # "none") => ret = EmptyTable

C2_Witness ==
    /\ pc = "done"
    /\ failure = "Unexpected"
    /\ df # Pending
    /\ df.rows # <<>>
    /\ ret = EmptyTable

\* C3: for a root map with a list-valued top-level field the resolver takes
\* the field of greatest length, the first one on a tie; it gives one row per
\* element of that list, in element order, and every row carries every
\* non-list top-level key with the root's value.
C3_ShapeResolution ==
    Resolved =>
      \A c \in 1..Len(file.content.c) :
         Chosen(file.content, c) =>
           LET elements == list_items(file.content.c[c].n)
           IN  /\ Len(raw.rows) = Len(elements)
               /\ \A i \in 1..Len(raw.rows) :
                     /\ \A f \in 1..Len(file.content.c) :
                           file.content.c[f].n.t # "list" =>
                              Holds(raw.rows[i], file.content.c[f].k,
                                    file.content.c[f].n)
                     /\ LET flat == flatten_json(elements[i], <<>>)
                        IN  \A e \in 1..Len(flat) :
                               \/ \E f \in 1..Len(file.content.c) :
                                     /\ file.content.c[f].n.t # "list"
                                     /\ file.content.c[f].k = flat[e].k
                               \/ Holds(raw.rows[i], flat[e].k, flat[e].n)

C3_Witness ==
    /\ Resolved
    /\ file.content = LengthsDoc
    /\ Len(raw.rows) = 5
    /\ Holds(raw.rows[5], K_id, Scalar("7"))

\* C4: flatten_json with the default prefix keys every scalar leaf by the
\* '_'-join of the normalized map keys and list indices on its path from
\* the root, the child key alone at the top level (no leading segment).
C4_PathKeys ==
    (Returned("flatten_json") /\ IsContainer(call.arg))
    => dict_keys(call.res) = {PathKey(path) : path \in LeafPaths(call.arg)}

\* C5: every key in the output of flatten_json and of deep_flatten_row is a
\* non-empty string that is not made only of '_' separators.
C5_KeySafety ==
    (Returned("flatten_json") \/ Returned("deep_flatten_row"))
    => \A i \in 1..Len(call.res) :
          /\ call.res[i].k # NoneKey
          /\ strip(call.res[i].k, {"_"}) # <<>>

\* C6 as stated: no output value is null, and every scalar leaf is stored at
\* its composed key, null as the empty string and anything else unchanged.
C6_EveryLeafStored ==
    (Returned("flatten_json") \/ Returned("deep_flatten_row"))
    => /\ \A i \in 1..Len(call.res) : call.res[i].n # None
       /\ \A w \in 1..Len(Leaves) :
             Holds(call.res, Leaves[w].k, NullAsEmpty(Leaves[w].n))

\* C6 amended: no output value is null; the output has exactly the composed
\* keys of the scalar leaves, and a key holds the value of the last leaf of
\* the traversal composed to it, null as the empty string and anything else
\* unchanged (a leaf is stored unless a later leaf has the same key).
C6_LastLeafStored ==
    (Returned("flatten_json") \/ Returned("deep_flatten_row"))
    => /\ \A i \in 1..Len(call.res) : call.res[i].n # None
       /\ dict_keys(call.res) = {Leaves[w].k : w \in 1..Len(Leaves)}
       /\ \A w \in 1..Len(Leaves) :
             (\A x \in (w + 1)..Len(Leaves) : Leaves[x].k # Leaves[w].k)
             => Holds(call.res, Leaves[w].k, NullAsEmpty(Leaves[w].n))

C6_Witness ==
    /\ Returned("deep_flatten_row")
    /\ \E w \in 1..Len(Leaves) :
          /\ Leaves[w].n = None
          /\ Holds(call.res, Leaves[w].k, Scalar(""))
    /\ \E w \in 1..Len(Leaves) :
          /\ Leaves[w].n = Scalar("1")
          /\ Holds(call.res, Leaves[w].k, Scalar("1"))

\* C7: after normalize_list_columns every column that had a list cell holds
\* in every row a list, all of one length, each the original list (or the
\* one-element list of the original cell) padded on the right with nulls
\* only; a column that had no list cell is unchanged.
C7_Rectangular ==
    Normalized =>
      /\ df.columns = raw.columns
      /\ Len(df.rows) = Len(raw.rows)
      /\ \A j \in 1..Len(raw.columns) :
            IF ColumnHasList(raw, j)
            THEN \A i \in 1..Len(raw.rows) :
                    /\ df.rows[i][j].k = raw.columns[j]
                    /\ RightPadded(df.rows[i][j].n,
                                   OriginalItems(raw.rows[i][j].n))
                    /\ \A h \in 1..Len(raw.rows) :
                          Len(df.rows[h][j].n.c) = Len(df.rows[i][j].n.c)
            ELSE \A i \in 1..Len(raw.rows) : df.rows[i][j] = raw.rows[i][j]

C7_Witness ==
    /\ Normalized
    /\ \E j \in 1..Len(raw.columns) :
          \E i, h, g \in 1..Len(raw.rows) :
             /\ raw.rows[i][j].n.t = "list"
             /\ raw.rows[h][j].n.t = "list"
             /\ Len(raw.rows[i][j].n.c) < Len(raw.rows[h][j].n.c)
             /\ raw.rows[g][j].n.t # "list"
             /\ Len(df.rows[g][j].n.c) = Len(raw.rows[h][j].n.c)

IsFlatRow(row) ==
    \A i \in 1..Len(row) :
       /\ row[i].n.t = "scalar"
       /\ row[i].k \notin {<<>>, NoneKey}

C9_FlatRowUnchanged ==
    Returned("deep_flatten_row")
    => /\ IsFlatRow(call.arg) => call.res = call.arg
       /\ deep_flatten_row(call.res) = call.res

\* C9 amended: deep_flatten_row returns an already-flat row with its keys,
\* their order and every non-null value unchanged, a null value replaced by
\* the empty string; and applying it to its own result changes nothing.
C9_FlatRowUnchangedButNulls ==
    Returned("deep_flatten_row")
    => /\ IsFlatRow(call.arg) =>
             call.res = [i \in 1..Len(call.arg) |->
                           Item(call.arg[i].k, NullAsEmpty(call.arg[i].n))]
       /\ deep_flatten_row(call.res) = call.res

C9_Witness ==
    /\ Returned("deep_flatten_row")
    /\ IsFlatRow(call.arg)
    /\ Len(call.arg) = 2
    /\ \E i \in 1..Len(call.arg) : call.arg[i].k = <<"_">>
    /\ call.res = call.arg

\* C10: the common padded length of a column with a list cell is the
\* greatest length among its list cells; non-list cells never raise it.
C10_MaxLenOfLists ==
    Normalized =>
      \A j \in 1..Len(raw.columns) :
         ColumnHasList(raw, j) =>
            \A i \in 1..Len(raw.rows) :
               /\ \A h \in 1..Len(raw.rows) :
                     raw.rows[h][j].n.t = "list" =>
                        Len(raw.rows[h][j].n.c) <= Len(df.rows[i][j].n.c)
               /\ \E h \in 1..Len(raw.rows) :
                     /\ raw.rows[h][j].n.t = "list"
                     /\ Len(raw.rows[h][j].n.c) = Len(df.rows[i][j].n.c)

====
